---- MODULE Spec2Model ----
(***************************************************************************)
(* AJA capture source (plugins/aja/aja-source.cpp): capture sessions, the  *)
(* capture thread of each session, the control-thread entry points         *)
(* (update, show, hide, destroy) and the per-device channel leases.        *)
(*                                                                         *)
(* One control thread runs the entry points, one at a time; it is at       *)
(* position ctl.pc of operation ctl.op on session ctl.s.  Each session     *)
(* has its own capture thread at position tpc[s].  The steps of the        *)
(* control thread and of the capture threads interleave.                   *)
(***************************************************************************)
EXTENDS Integers, Sequences, FiniteSets, TLC

\* ------------------------------------------------------------ universe

\* Session (client) names, as given by obs_source_get_name: distinct.
Sessions == {"s1", "s2"}

\* Card IDs known to the card manager; NoCard is the empty card ID.
Devices == {"d1", "d2"}
NoCard == "none"

\* Framestore channels of a device (NTV2_CHANNEL1, NTV2_CHANNEL2).
Channels == {0, 1}

\* IOSelection values.  IO_NoSources stands for every selection for which
\* aja::IOSelectionToInputSources yields no input source.
IO_Invalid == "Invalid"
IO_NoSources == "NoSources"
IOSelections == {IO_Invalid, IO_NoSources, "SDI1", "SDI2", "SDI1_2", "HDMI1"}

\* NTV2VideoFormat / NTV2PixelFormat values of the model.
FORMAT_UNKNOWN == "FORMAT_UNKNOWN"
VideoFormats == {"720p", "1080pA", "1080pB"}
FBF_INVALID == "FBF_INVALID"
FBF_8BIT_YCBCR == "8BIT_YCBCR"
FBF_24BIT_BGR == "24BIT_BGR"
kDefaultAJAPixelFormat == FBF_8BIT_YCBCR
kAutoDetect == "auto"

\* ULWord arithmetic: unsigned, modulo WordMod (the model's word is narrower
\* than 32 bits; every address of the model is far below it).
WordMod == 65536
Add32(a, b) == (a + b) % WordMod
Sub32(a, b) == (a - b + WordMod) % WordMod

\* Byte count of the session's audio buffer (NTV2_AUDIOSIZE_MAX, scaled),
\* bytes of one audio frame (8 channels of 32 bit), and the hardware's
\* audio ring: read offset and wrap address as the card reports them.
NTV2_AUDIOSIZE_MAX == 32
AudioFrameBytes == 32
HwAudioReadOffset == 16
HwAudioWrapAddress == 48

\* Bound of the exploration: the number of events from outside, which are
\* the entry-point calls of the host and the changes of the environment
\* (signal, device presence).
MaxEvents == 4
MaxCalls == 2

\* ------------------------------------------------- external collaborators

\* aja::IOSelectionToInputSources: the input sources of a selection, first
\* source first; each source has a kind and a framestore channel
\* (NTV2InputSourceToChannel).
IOSelectionToInputSources(io) ==
    CASE io = "SDI1" -> << [kind |-> "SDI", channel |-> 0] >>
      [] io = "SDI2" -> << [kind |-> "SDI", channel |-> 1] >>
      [] io = "SDI1_2" -> << [kind |-> "SDI", channel |-> 0],
                             [kind |-> "SDI", channel |-> 1] >>
      [] io = "HDMI1" -> << [kind |-> "HDMI", channel |-> 0] >>
      [] OTHER -> << >>

\* The channels an input selection is leased as.
IOChannels(io) ==
    LET srcs == IOSelectionToInputSources(io)
    IN {srcs[i].channel : i \in 1..Len(srcs)}

\* SourceProps::Channel(): the channel of the selection's first source.
PropsChannel(io) ==
    LET srcs == IOSelectionToInputSources(io)
    IN IF Len(srcs) = 0 THEN 0 ELSE srcs[1].channel

\* aja::IsSDITwoWireIOSelection.
IsSDITwoWireIOSelection(io) == io = "SDI1_2"

\* aja::HandleSpecialCaseFormats: a 3G level-B format is reinterpreted as
\* its level-A equivalent, except on a two-wire selection.
HandleSpecialCaseFormats(io, vf, deviceID) ==
    IF vf = "1080pB" /\ ~IsSDITwoWireIOSelection(io) THEN "1080pA" ELSE vf

\* CardEntry::GetCardIndex and CNTV2Card::GetDeviceID.
GetCardIndex(card) == IF card = "d1" THEN 0 ELSE 1
DEVICE_ID_NOTFOUND == "DEVICE_ID_NOTFOUND"
GetDeviceID(card) == IF card \in Devices THEN card ELSE DEVICE_ID_NOTFOUND

\* GetVideoWriteSize: bytes of one raster of a format.
GetVideoWriteSize(vf, pf) ==
    (IF vf = "720p" THEN 2 ELSE 4) * (IF pf = FBF_24BIT_BGR THEN 3 ELSE 2)

\* Channel Lease Manager.  tab[d][c] is the set of client names that hold
\* channel c of device d.  Acquire and release run under the manager's lock:
\* each is one atomic read-modify-write of the table.
ChannelReady(tab, d, c, owner) == tab[d][c] \subseteq {owner}

\* A faulty acquire, which does not look at the owners of the channels.
AcquireInputSelectionNoCheck(tab, d, io, owner) ==
    [ok |-> TRUE,
     tab |-> [tab EXCEPT ![d] = [c \in Channels |->
                 IF c \in IOChannels(io) THEN tab[d][c] \cup {owner}
                 ELSE tab[d][c]]]]

AcquireInputSelectionSteal(tab, d, io, owner) ==
    [ok |-> TRUE,
     tab |-> [tab EXCEPT ![d] = [c \in Channels |->
                 IF c \in IOChannels(io) THEN {owner} ELSE tab[d][c]]]]

AcquireInputSelectionPartial(tab, d, io, owner) ==
    [ok |-> \A c \in IOChannels(io) : ChannelReady(tab, d, c, owner),
     tab |-> [tab EXCEPT ![d] = [c \in Channels |->
                 IF c \in IOChannels(io) /\ ChannelReady(tab, d, c, owner)
                 THEN tab[d][c] \cup {owner} ELSE tab[d][c]]]]

AcquireInputSelection(tab, d, io, owner) ==
    IF \A c \in IOChannels(io) : ChannelReady(tab, d, c, owner)
    THEN [ok |-> TRUE,
          tab |-> [tab EXCEPT ![d] = [c \in Channels |->
                      IF c \in IOChannels(io) THEN tab[d][c] \cup {owner}
                      ELSE tab[d][c]]]]
    ELSE [ok |-> FALSE, tab |-> tab]

\* A faulty release, which reports success and releases nothing.
ReleaseInputSelectionNoop(tab, d, io, owner) == [ok |-> TRUE, tab |-> tab]

\* A faulty release, which clears the channels of the selection whoever
\* owns them.
ReleaseInputSelectionForce(tab, d, io, owner) ==
    [ok |-> IOChannels(io) # {} /\ \A c \in IOChannels(io) : owner \in tab[d][c],
     tab |-> [tab EXCEPT ![d] = [c \in Channels |->
                 IF c \in IOChannels(io) THEN {} ELSE tab[d][c]]]]

ReleaseInputSelection(tab, d, io, owner) ==
    IF IOChannels(io) # {} /\ \A c \in IOChannels(io) : owner \in tab[d][c]
    THEN [ok |-> TRUE,
          tab |-> [tab EXCEPT ![d] = [c \in Channels |->
                      IF c \in IOChannels(io) THEN tab[d][c] \ {owner}
                      ELSE tab[d][c]]]]
    ELSE [ok |-> FALSE, tab |-> tab]

\* The <<device, channel>> pairs a client holds.
OwnedBy(tab, owner) ==
    {dc \in Devices \X Channels : owner \in tab[dc[1]][dc[2]]}

\* SourceProps, its default value and its equality.  The transport fields
\* and the VPID list are left out: aja_source_update copies the transport
\* settings into them and nothing of this module reads them; the remap of
\* the 4K "squares" selections (no 4K format here) is left out with them.
DefaultProps ==
    [deviceID |-> DEVICE_ID_NOTFOUND, ioSelect |-> IO_Invalid,
     videoFormat |-> FORMAT_UNKNOWN, pixelFormat |-> FBF_INVALID,
     autoDetect |-> FALSE, deactivateWhileNotShowing |-> FALSE]

PropsEqual(a, b) == a = b

\* The signal on the inputs: the raw video format the card reports, whether
\* an SDI payload identifier (VPID) can be read on the first and on the
\* second SDI connector and the sampling it parses to ("other": a sampling
\* that is neither 4:2:2 YUV nor 4:4:4 GBR), and the colour space an HDMI
\* input negotiated.
NoSignal ==
    [vf |-> FORMAT_UNKNOWN, vpid |-> "none", vpidB |-> "none", hdmi |-> "none"]
Signals ==
    {NoSignal,
     [vf |-> "720p", vpid |-> "422", vpidB |-> "422", hdmi |-> "YCbCr"],
     [vf |-> "1080pB", vpid |-> "422", vpidB |-> "422", hdmi |-> "YCbCr"]}

\* CNTV2Card::ReadSDIInVPID on a channel, parsed: "none" when the read fails.
ChannelVpid(sig, channel) == IF channel = 0 THEN sig.vpid ELSE sig.vpidB

\* The settings the host hands to aja_source_update.
DefaultSettings ==
    [card |-> NoCard, io |-> IO_Invalid, vf |-> kAutoDetect,
     pf |-> kAutoDetect, dwns |-> FALSE]
SettingsSet ==
    {DefaultSettings,
     [card |-> "d1", io |-> "SDI1", vf |-> kAutoDetect, pf |-> kAutoDetect, dwns |-> TRUE],
     [card |-> "d1", io |-> "SDI2", vf |-> kAutoDetect, pf |-> kAutoDetect, dwns |-> FALSE],
     [card |-> "d1", io |-> "SDI1_2", vf |-> "720p", pf |-> kAutoDetect, dwns |-> FALSE],
     [card |-> "d1", io |-> IO_NoSources, vf |-> kAutoDetect, pf |-> kAutoDetect, dwns |-> FALSE],
     [card |-> "d2", io |-> "SDI1", vf |-> "720p", pf |-> FBF_8BIT_YCBCR, dwns |-> FALSE]}

\* The settings the host applies to a session: the first session is taken
\* through all of them, the other sessions hold the second SDI input of the
\* first card.
SettingsOf(s) ==
    IF s = "s1" THEN SettingsSet
    ELSE {[card |-> "d1", io |-> "SDI2", vf |-> kAutoDetect, pf |-> kAutoDetect,
           dwns |-> FALSE]}

\* The sessions the host shows and hides: those of which a setting asks for
\* deactivation while not showing.  For the others aja_source_show and
\* aja_source_hide test the flag of the props and do nothing.
Hideable == {s \in Sessions : \E st \in SettingsOf(s) : st.dwns}

\* The cards that can be unplugged.
Removable == {"d1"}

\* ------------------------------------------------------ Wire-Format Resolver

\* NTV2DeviceGetHDMIVersion.
NTV2DeviceGetHDMIVersion(deviceID) == IF deviceID = "d2" THEN 1 ELSE 2

\* One pass of the loop of ReadWireFormats over a source: the channel is
\* enabled, one vertical interrupt is waited for, an SDI source appends its
\* parsed VPID when the read succeeds (ReadChannelVPIDs), an HDMI source
\* chooses the pixel format from the negotiated colour space.
ProbeSource(acc, src, deviceID, sig) ==
    IF src.kind = "SDI"
    THEN [acc EXCEPT !.enabled = @ \cup {src.channel},
                     !.waits = @ + 1,
                     !.vpids = IF ChannelVpid(sig, src.channel) # "none"
                               THEN Append(@, ChannelVpid(sig, src.channel))
                               ELSE @]
    ELSE IF src.kind = "HDMI"
    THEN [acc EXCEPT !.enabled = @ \cup {src.channel},
                     !.waits = @ + 1,
                     !.pf = IF NTV2DeviceGetHDMIVersion(deviceID) = 1
                            THEN kDefaultAJAPixelFormat
                            ELSE IF sig.hdmi = "YCbCr" THEN kDefaultAJAPixelFormat
                            ELSE IF sig.hdmi = "RGB" THEN FBF_24BIT_BGR
                            ELSE @]
    ELSE [acc EXCEPT !.enabled = @ \cup {src.channel}]

RECURSIVE ProbeSources(_, _, _, _, _)
ProbeSources(acc, srcs, i, deviceID, sig) ==
    IF i > Len(srcs) THEN acc
    ELSE ProbeSources(ProbeSource(acc, srcs[i], deviceID, sig), srcs, i + 1,
                      deviceID, sig)

\* A faulty resolver, which waits on the first connector before it looks
\* at the connector set.
ReadWireFormatsLateFail(deviceID, io, vf, pf, vpids, sig) ==
    [ok |-> Len(IOSelectionToInputSources(io)) # 0,
     vf |-> HandleSpecialCaseFormats(io, sig.vf, deviceID), pf |-> pf,
     vpids |-> vpids, waits |-> Len(IOSelectionToInputSources(io)) + 1,
     enabled |-> IOChannels(io)]

\* AJASource::ReadWireFormats(device_id, io_select, vf, pf, vpids) with the
\* signal sig on the inputs.  vf, pf and vpids are in/out arguments.
ReadWireFormats(deviceID, io, vf, pf, vpids, sig) ==
    LET srcs == IOSelectionToInputSources(io)
    IN IF Len(srcs) = 0
       THEN [ok |-> FALSE, vf |-> vf, pf |-> pf, vpids |-> vpids,
             waits |-> 0, enabled |-> {}]
       ELSE LET p == ProbeSources([pf |-> pf, vpids |-> vpids, waits |-> 0,
                                   enabled |-> {}], srcs, 1, deviceID, sig)
                pf2 == IF srcs[1].kind = "SDI" /\ Len(p.vpids) > 0
                       THEN IF p.vpids[1] = "422" THEN FBF_8BIT_YCBCR
                            ELSE IF p.vpids[1] = "444" THEN FBF_24BIT_BGR
                            ELSE p.pf
                       ELSE p.pf
            IN [ok |-> TRUE,
                vf |-> HandleSpecialCaseFormats(io, sig.vf, deviceID),
                pf |-> pf2, vpids |-> p.vpids,
                waits |-> p.waits + 1, enabled |-> p.enabled]

\* ------------------------------------------------------------ Offset Tracker

\* A faulty reset, without the last assignment (lastAddress = readOffset).
ResetAudioBufferOffsetsNoLast ==
    [currentAddress |-> 0,
     lastAddress |-> 0,
     readOffset |-> HwAudioReadOffset,
     wrapAddress |-> Add32(HwAudioWrapAddress, HwAudioReadOffset),
     bytesRead |-> 0]

\* ResetAudioBufferOffsets: every offset zeroed, then the read offset and
\* the wrap address re-read from the card.
ResetAudioBufferOffsets ==
    [currentAddress |-> 0,
     lastAddress |-> HwAudioReadOffset,
     readOffset |-> HwAudioReadOffset,
     wrapAddress |-> Add32(HwAudioWrapAddress, HwAudioReadOffset),
     bytesRead |-> 0]

ZeroOffsets ==
    [currentAddress |-> 0, lastAddress |-> 0, readOffset |-> 0,
     wrapAddress |-> 0, bytesRead |-> 0]

\* A faulty overrun check, which never finds one.
OverrunNever(bytes, cap) == FALSE

\* The overrun checks of the capture loop: more bytes than the audio buffer
\* holds.
Overrun(bytes, cap) == bytes > cap

\* A faulty end of the poll, which leaves lastAddress where it was.
CommitPollStale(o) == o

\* Without overrun, the poll ends with lastAddress = currentAddress.
CommitPoll(o) == [o EXCEPT !.lastAddress = o.currentAddress]

\* The audio part of one capture-loop iteration: o the AudioOffsets, lastIn
\* the value of ReadAudioLastIn, cap the byte count of mAudioBuffer.
\* reads: the DMAReadAudio calls, in order, as [src, dst, len]; emitted: an
\* audio unit was handed to the sink, of `frames` frames.
AudioPoll(o, lastIn, cap) ==
    LET cur == Add32(lastIn - (lastIn % 4), o.readOffset)
        o1 == [o EXCEPT !.currentAddress = cur]
    IN IF cur < o.lastAddress
       THEN LET b1 == Sub32(o.wrapAddress, o.lastAddress)
            IN IF Overrun(b1, cap)
               THEN [offsets |-> ResetAudioBufferOffsets, overrun |-> TRUE,
                     span |-> b1, reads |-> << >>, emitted |-> FALSE, frames |-> 0]
               ELSE LET len2 == Sub32(cur, o.readOffset)
                        b2 == Add32(b1, len2)
                        rd == << [src |-> o.lastAddress, dst |-> 0, len |-> b1],
                                 [src |-> o.readOffset, dst |-> b1, len |-> len2] >>
                    IN IF Overrun(b2, cap)
                       THEN [offsets |-> ResetAudioBufferOffsets, overrun |-> TRUE,
                             span |-> b2, reads |-> rd, emitted |-> FALSE,
                             frames |-> 0]
                       ELSE [offsets |-> CommitPoll([o1 EXCEPT !.bytesRead = b2]),
                             overrun |-> FALSE, span |-> b2, reads |-> rd,
                             emitted |-> TRUE, frames |-> b2 \div AudioFrameBytes]
       ELSE LET b == Sub32(cur, o.lastAddress)
            IN IF Overrun(b, cap)
               THEN [offsets |-> ResetAudioBufferOffsets, overrun |-> TRUE,
                     span |-> b, reads |-> << >>, emitted |-> FALSE, frames |-> 0]
               ELSE [offsets |-> CommitPoll([o1 EXCEPT !.bytesRead = b]),
                     overrun |-> FALSE, span |-> b,
                     reads |-> << [src |-> o.lastAddress, dst |-> 0, len |-> b] >>,
                     emitted |-> TRUE, frames |-> b \div AudioFrameBytes]

\* ------------------------------------------------------------------ state

VARIABLES
    owners,          \* lease table: [Devices -> [Channels -> SUBSET Sessions]]
    initialized,     \* the static flag of aja_source_update
    route,           \* per device and channel, the SourceProps last routed
    inputFrame,      \* per device and channel, the frame of SetInputFrame
    signal,          \* the signal on the inputs
    devPresent,      \* per device: open and GetModelName() # "(Not Found)"
    hwAudioRunning,  \* the audio write pointer of the cards advances
    alive,           \* per session: created and not yet destroyed
    settings,        \* per session: the settings of the OBS source
    showing,         \* per session: obs_source_showing
    mCard, mCardID, mDeviceIndex, mSourceProps, mIsCapturing,
    mCaptureThread,  \* per session: mCaptureThread # nullptr
    mVideoBuffer,    \* per session: byte count of the video buffer
    mAudioBuffer,    \* per session: byte count of the audio buffer
    tpc,             \* per session: position of the capture thread
    tcard, tprops,   \* per session: card and sourceProps of CaptureThread
    currentCardFrame, offsets,
    iter,            \* per session: what the last loop iteration did
    audioEnd,        \* per session: hardware address after the last byte read
    fmtReq,          \* per session: the format whose detection made the loop
                     \* request an update, and whether that update has run
                     \* to its end; cleared when signal or settings change
    blackSinceDeact, \* per session: placeholder emitted during Deactivate
    ctl,             \* the control thread
    lostHalt,        \* per session: the loop has found the device absent and
                     \* no update of the session has run to its end since
    started,         \* per session: capture threads started by Start() that
                     \* have not returned
    wireArgs,        \* the arguments of ReadWireFormats as a caller holds
                     \* them over repeated calls
    eventsLeft       \* events from outside that may still happen

hwVars == <<route, inputFrame, signal, devPresent, hwAudioRunning>>
hostVars == <<alive, settings, showing>>
objVars == <<mCard, mCardID, mDeviceIndex, mSourceProps, mIsCapturing,
             mCaptureThread, mVideoBuffer, mAudioBuffer>>
threadVars == <<tpc, tcard, tprops, currentCardFrame, offsets, iter, audioEnd>>
vars == <<owners, initialized, hwVars, hostVars, objVars, threadVars,
          fmtReq, blackSinceDeact, ctl, lostHalt, started, wireArgs,
          eventsLeft>>
budget == eventsLeft

\* An access to the capturing flag of session s by the control thread or by
\* the capture thread, and whether mMutex is held during it.
\* AJASource::IsCapturing returns mIsCapturing and takes no lock.
IsCapturingAccess(s, by) ==
    [s |-> s, by |-> by, kind |-> "read", locked |-> FALSE]

\* AJASource::SetCapturing: std::lock_guard on mMutex, then the write.
SetCapturingAccess(s, by) ==
    [s |-> s, by |-> by, kind |-> "write", locked |-> TRUE]

\* A step that touches no capturing flag.
NoFlagAccess == << >>

NoPoll == [overrun |-> FALSE, span |-> 0, reads |-> << >>, emitted |-> FALSE,
           frames |-> 0, polled |-> FALSE]
NoIter == [kind |-> "none", audio |-> 0, video |-> 0, black |-> 0, req |-> 0,
           poll |-> NoPoll]
NoFmtReq == [vf |-> FORMAT_UNKNOWN, done |-> FALSE]
\* No caller holds arguments of ReadWireFormats.
NoWire == [deviceID |-> "none", ioSelect |-> IO_Invalid, vf |-> FORMAT_UNKNOWN,
           pf |-> FBF_INVALID, vpids |-> << >>, ok |-> FALSE, calls |-> 0,
           waits |-> 0, enabled |-> {}]
NoPre == [owned |-> {}, cardID |-> NoCard, devIndex |-> 0,
          props |-> DefaultProps, running |-> FALSE]
CtlIdle == [op |-> "idle", s |-> "none", pc |-> "idle", ret |-> "idle",
            outcome |-> "none", pre |-> NoPre, reinit |-> FALSE,
            deact |-> "none", wasActive |-> FALSE, want |-> DefaultProps]

\* The state of a session as aja_source_update finds it.
Snapshot(s) ==
    [owned |-> OwnedBy(owners, s), cardID |-> mCardID[s],
     devIndex |-> mDeviceIndex[s], props |-> mSourceProps[s],
     running |-> tpc[s] # "idle"]

\* After aja_source_create of every session: the audio buffer allocated, the
\* thread object created by Activate(false) and not started, the first
\* update requested with the default settings.
InitBase ==
    /\ owners = [d \in Devices |-> [c \in Channels |-> {}]]
    /\ initialized = FALSE
    /\ route = [d \in Devices |-> [c \in Channels |-> DefaultProps]]
    /\ inputFrame = [d \in Devices |-> [c \in Channels |-> 2 * c]]
    /\ devPresent = [d \in Devices |-> TRUE]
    /\ alive = [s \in Sessions |-> TRUE]
    /\ settings = [s \in Sessions |-> DefaultSettings]
    /\ showing = [s \in Sessions |-> TRUE]
    /\ mCard = [s \in Sessions |-> NoCard]
    /\ mCardID = [s \in Sessions |-> NoCard]
    /\ mDeviceIndex = [s \in Sessions |-> 0]
    /\ mSourceProps = [s \in Sessions |-> DefaultProps]
    /\ mIsCapturing = [s \in Sessions |-> FALSE]
    /\ mCaptureThread = [s \in Sessions |-> TRUE]
    /\ mVideoBuffer = [s \in Sessions |-> 0]
    /\ mAudioBuffer = [s \in Sessions |-> NTV2_AUDIOSIZE_MAX]
    /\ tpc = [s \in Sessions |-> "idle"]
    /\ tcard = [s \in Sessions |-> NoCard]
    /\ tprops = [s \in Sessions |-> DefaultProps]
    /\ currentCardFrame = [s \in Sessions |-> 0]
    /\ offsets = [s \in Sessions |-> ZeroOffsets]
    /\ iter = [s \in Sessions |-> NoIter]
    /\ audioEnd = [s \in Sessions |-> -1]
    /\ fmtReq = [s \in Sessions |-> NoFmtReq]
    /\ blackSinceDeact = [s \in Sessions |-> FALSE]
    /\ ctl = CtlIdle
    /\ lostHalt = [s \in Sessions |-> FALSE]
    /\ started = [s \in Sessions |-> 0]
    /\ eventsLeft = MaxEvents

InitCommon == InitBase /\ signal \in Signals

\* The signal on the inputs when the sessions are created: none or 720p;
\* SignalChange brings the other formats.
InitSignals == {sig \in Signals : sig.vf \in {FORMAT_UNKNOWN, "720p"}}

Init ==
    /\ InitBase
    /\ signal \in InitSignals
    /\ hwAudioRunning = FALSE
    /\ wireArgs = NoWire

\* ---------------------------------------------------------- capture thread

\* currentCardFrame ^= 1.
Flip(f) == IF f % 2 = 0 THEN f + 1 ELSE f - 1

\* A faulty read of the flag, which never sees it cleared.
IsCapturingAlways(s) == TRUE

\* AJASource::IsCapturing.
IsCapturing(s) == mIsCapturing[s]
\* The values ReadAudioLastIn can return.
AudioLastIn == IF hwAudioRunning THEN 0..(HwAudioWrapAddress - 1) ELSE {0}

\* GenerateTestPattern hands one black frame to the sink; it counts for a
\* Deactivate of this session that is in progress.
BlackEmitted(s) ==
    blackSinceDeact' =
        [blackSinceDeact EXCEPT ![s] =
            @ \/ (ctl.s = s /\ ctl.pc \in {"deact_join"})]

\* CaptureThread from its entry to the head of the loop.
ThreadEntry(s) ==
    /\ UNCHANGED lostHalt
    /\ UNCHANGED wireArgs
    /\ UNCHANGED budget
    /\ tpc[s] = "entry"
    /\ IF mCard[s] = NoCard
       THEN /\ tpc' = [tpc EXCEPT ![s] = "idle"]
            /\ UNCHANGED <<tcard, tprops, currentCardFrame, offsets, iter,
                           audioEnd, mVideoBuffer, inputFrame>>
       ELSE LET sp == mSourceProps[s]
                channel == PropsChannel(sp.ioSelect)
                frame == Flip(2 * channel)
            IN /\ tpc' = [tpc EXCEPT ![s] = "loop"]
               /\ tcard' = [tcard EXCEPT ![s] = mCard[s]]
               /\ tprops' = [tprops EXCEPT ![s] = sp]
               /\ mVideoBuffer' = [mVideoBuffer EXCEPT ![s] =
                      IF sp.videoFormat # FORMAT_UNKNOWN
                      THEN GetVideoWriteSize(sp.videoFormat, sp.pixelFormat)
                      ELSE @]
               /\ currentCardFrame' = [currentCardFrame EXCEPT ![s] = frame]
               /\ inputFrame' = [inputFrame EXCEPT ![mCard[s]][channel] = frame]
               /\ offsets' = [offsets EXCEPT ![s] = ResetAudioBufferOffsets]
               /\ audioEnd' = [audioEnd EXCEPT ![s] = HwAudioReadOffset]
               /\ iter' = [iter EXCEPT ![s] = NoIter]
    /\ UNCHANGED <<owners, initialized, route, signal, devPresent,
                   hwAudioRunning, hostVars, mCard, mCardID, mDeviceIndex,
                   mSourceProps, mIsCapturing, mCaptureThread, mAudioBuffer,
                   fmtReq, blackSinceDeact, ctl>>
    /\ started' = [started EXCEPT ![s] = IF tpc'[s] = "idle" THEN @ - 1 ELSE @]

\* A faulty check, which never finds the device absent.
DeviceAbsentNever(s) == FALSE

\* card->GetModelName() == "(Not Found)" at the top of the loop body.
DeviceAbsent(s) == ~devPresent[tcard[s]]

\* What one pass of the while loop does, from the loop condition to the
\* continue, the break or the end of the body.  lastIn: ReadAudioLastIn.
IterResult(s, lastIn) ==
    LET sp == tprops[s]
        channel == PropsChannel(sp.ioSelect)
        frame == Flip(currentCardFrame[s])
        newVF == HandleSpecialCaseFormats(sp.ioSelect, signal.vf, sp.deviceID)
        poll == AudioPoll(offsets[s], lastIn, mAudioBuffer[s])
        same == [pc |-> "loop", frame |-> currentCardFrame[s],
                 offsets |-> offsets[s], setInput |-> FALSE, it |-> NoIter]
    IN IF ~IsCapturing(s)
       THEN [same EXCEPT !.pc = "exit", !.it.kind = "stopped"]
       ELSE IF DeviceAbsent(s)
       THEN [same EXCEPT !.pc = "exit", !.it.kind = "lost", !.it.req = 1]
       ELSE IF signal.vf = FORMAT_UNKNOWN
       THEN [same EXCEPT !.frame = frame, !.it.kind = "unresolved",
                         !.it.black = 1]
       ELSE IF sp.autoDetect /\ sp.videoFormat # newVF
       THEN [same EXCEPT !.pc = "exit", !.frame = frame,
                         !.it.kind = "changed", !.it.req = 1]
       ELSE LET it1 == [NoIter EXCEPT
                           !.audio = IF poll.emitted THEN 1 ELSE 0,
                           !.poll = [overrun |-> poll.overrun, span |-> poll.span,
                                     reads |-> poll.reads,
                                     emitted |-> poll.emitted,
                                     frames |-> poll.frames, polled |-> TRUE]]
            IN IF mVideoBuffer[s] = 0
               THEN [same EXCEPT !.frame = frame, !.offsets = poll.offsets,
                                 !.it = [it1 EXCEPT !.kind = "novideo"]]
               ELSE [pc |-> "loop", frame |-> frame, offsets |-> poll.offsets,
                     setInput |-> TRUE,
                     it |-> [it1 EXCEPT !.kind = "frame", !.video = 1]]

\* The hardware address after the last byte an audio poll read.
AudioEndAfter(s, it) ==
    IF ~it.poll.polled THEN audioEnd[s]
    ELSE IF it.poll.overrun THEN HwAudioReadOffset
    ELSE LET rd == it.poll.reads[Len(it.poll.reads)]
         IN rd.src + rd.len

ThreadIterate(s) ==
    /\ UNCHANGED wireArgs
    /\ UNCHANGED started
    /\ UNCHANGED budget
    /\ tpc[s] = "loop"
    /\ \E lastIn \in AudioLastIn :
         LET r == IterResult(s, lastIn)
         IN /\ tpc' = [tpc EXCEPT ![s] = r.pc]
            /\ currentCardFrame' = [currentCardFrame EXCEPT ![s] = r.frame]
            /\ offsets' = [offsets EXCEPT ![s] = r.offsets]
            /\ iter' = [iter EXCEPT ![s] = r.it]
            /\ lostHalt' = [lostHalt EXCEPT ![s] = @ \/ r.it.kind = "lost"]
            /\ audioEnd' = [audioEnd EXCEPT ![s] = AudioEndAfter(s, r.it)]
            /\ inputFrame' =
                 IF r.setInput
                 THEN [inputFrame EXCEPT
                          ![tcard[s]][PropsChannel(tprops[s].ioSelect)] = r.frame]
                 ELSE inputFrame
            /\ fmtReq' = [fmtReq EXCEPT ![s] =
                 IF r.it.kind = "changed"
                 THEN [vf |-> HandleSpecialCaseFormats(tprops[s].ioSelect,
                                  signal.vf, tprops[s].deviceID),
                       done |-> FALSE]
                 ELSE @]
            /\ IF r.it.black = 1 THEN BlackEmitted(s)
               ELSE UNCHANGED blackSinceDeact
    /\ UNCHANGED <<owners, initialized, route, signal, devPresent,
                   hwAudioRunning, alive, settings, showing, objVars, tcard,
                   tprops, ctl>>

\* CaptureThread after the loop: the black test pattern, then the return.
ThreadExit(s) ==
    /\ UNCHANGED lostHalt
    /\ UNCHANGED wireArgs
    /\ UNCHANGED budget
    /\ tpc[s] = "exit"
    /\ tpc' = [tpc EXCEPT ![s] = "idle"]
    /\ BlackEmitted(s)
    /\ iter' = [iter EXCEPT ![s] = NoIter]
    /\ tcard' = [tcard EXCEPT ![s] = NoCard]
    /\ tprops' = [tprops EXCEPT ![s] = DefaultProps]
    /\ currentCardFrame' = [currentCardFrame EXCEPT ![s] = 0]
    /\ offsets' = [offsets EXCEPT ![s] = ZeroOffsets]
    /\ audioEnd' = [audioEnd EXCEPT ![s] = -1]
    /\ UNCHANGED <<owners, initialized, hwVars, hostVars, objVars, fmtReq, ctl>>
    /\ started' = [started EXCEPT ![s] = IF tpc'[s] = "idle" THEN @ - 1 ELSE @]

\* ---------------------------------------------------------- control thread

\* A faulty Active(), which never finds the thread active.
ThreadActiveNever(s) == FALSE

\* mCaptureThread->Active(): the thread has been started and has not
\* returned.
ThreadActive(s) == tpc[s] # "idle"

\* AJASource::Activate(true): the thread object is created when there is
\* none, the flag is set, the thread is started unless it is active.
ActivateTrue(s) ==
    /\ mCaptureThread' = [mCaptureThread EXCEPT ![s] = TRUE]
    /\ mIsCapturing' = [mIsCapturing EXCEPT ![s] = TRUE]
    /\ tpc' = [tpc EXCEPT ![s] = IF ~ThreadActive(s) THEN "entry" ELSE @]
    /\ started' = [started EXCEPT ![s] = IF ~ThreadActive(s) THEN @ + 1 ELSE @]

\* AJASource::Deactivate, first statement: SetCapturing(false).
DeactSet ==
    /\ UNCHANGED lostHalt
    /\ UNCHANGED wireArgs
    /\ UNCHANGED started
    /\ UNCHANGED budget
    /\ ctl.pc = "deact_set"
    /\ mIsCapturing' = [mIsCapturing EXCEPT ![ctl.s] = FALSE]
    /\ blackSinceDeact' = [blackSinceDeact EXCEPT ![ctl.s] = FALSE]
    /\ ctl' = [ctl EXCEPT !.pc = "deact_join", !.deact = "called",
                          !.wasActive = tpc[ctl.s] # "idle"]
    /\ UNCHANGED <<owners, initialized, hwVars, hostVars, mCard, mCardID,
                   mDeviceIndex, mSourceProps, mCaptureThread, mVideoBuffer,
                   mAudioBuffer, threadVars, fmtReq>>

\* A faulty Stop(), which does not wait for the thread.
DeactJoinNoWait(s) == TRUE

\* The thread object is there and active: Stop() waits for the thread to
\* return.
DeactJoinReady(s) == tpc[s] = "idle"

\* AJASource::Deactivate, the rest: Stop() has returned (or the thread was
\* not active), the thread object is deleted, Deactivate returns to its
\* caller (ctl.deact = "returned" until the caller's next step).
DeactJoin ==
    /\ UNCHANGED lostHalt
    /\ UNCHANGED wireArgs
    /\ UNCHANGED started
    /\ UNCHANGED budget
    /\ ctl.pc = "deact_join"
    /\ DeactJoinReady(ctl.s)
    /\ mCaptureThread' = [mCaptureThread EXCEPT ![ctl.s] = FALSE]
    /\ ctl' = [ctl EXCEPT !.pc = ctl.ret, !.ret = "idle", !.deact = "returned"]
    /\ UNCHANGED <<owners, initialized, hwVars, hostVars, mCard, mCardID,
                   mDeviceIndex, mSourceProps, mIsCapturing, mVideoBuffer,
                   mAudioBuffer, threadVars, fmtReq, blackSinceDeact>>

\* The caller of Deactivate goes on: what was recorded of the call is dropped.
AfterDeact == blackSinceDeact' = [s \in Sessions |-> FALSE]

\* aja_source_update from the card lookup to the decision to reconfigure:
\* what it returns with, or how it goes on, and the lease table, card, card
\* ID and device index it leaves.  currentCardID: the card ID at the call.
UpdateCompute(s, st, currentCardID) ==
    LET wantCardID == st.card
        curr == mSourceProps[s]
        keep == [outcome |-> "none", tab |-> owners, card |-> mCard[s],
                 cardID |-> mCardID[s], devIndex |-> mDeviceIndex[s],
                 want |-> DefaultProps]
    IN IF wantCardID \notin Devices
       THEN [keep EXCEPT !.outcome = "no_entry"]
       ELSE IF ~devPresent[wantCardID]
       THEN [keep EXCEPT !.outcome = "not_open"]
       ELSE
       LET rel1 == IF wantCardID # currentCardID /\ currentCardID \in Devices
                   THEN ReleaseInputSelection(owners, currentCardID,
                                              curr.ioSelect, s)
                   ELSE [ok |-> FALSE, tab |-> owners]
           io_select == IF rel1.ok THEN IO_Invalid ELSE st.io
           k1 == [keep EXCEPT !.card = wantCardID, !.tab = rel1.tab,
                              !.cardID = IF rel1.ok THEN wantCardID ELSE @]
       IN IF io_select = IO_Invalid
          THEN [k1 EXCEPT !.outcome = "invalid_io"]
          ELSE
          LET auto == st.vf = kAutoDetect \/ st.pf = kAutoDetect
              want0 == [deviceID |-> GetDeviceID(wantCardID),
                        ioSelect |-> io_select,
                        videoFormat |-> IF st.vf = kAutoDetect
                                        THEN FORMAT_UNKNOWN ELSE st.vf,
                        pixelFormat |-> IF st.pf = kAutoDetect
                                        THEN FBF_INVALID ELSE st.pf,
                        autoDetect |-> auto,
                        deactivateWhileNotShowing |-> st.dwns]
              k2 == [k1 EXCEPT !.cardID = wantCardID,
                               !.devIndex = GetCardIndex(wantCardID),
                               !.want = want0]
              rel2 == IF want0.ioSelect # curr.ioSelect
                      THEN ReleaseInputSelection(rel1.tab, wantCardID,
                                                 curr.ioSelect, s)
                      ELSE [ok |-> FALSE, tab |-> rel1.tab]
              acq == AcquireInputSelection(rel2.tab, wantCardID,
                                           want0.ioSelect, s)
          IN IF ~acq.ok
             THEN [k2 EXCEPT !.outcome = "acquire_refused", !.tab = acq.tab]
             ELSE
             LET wire == ReadWireFormats(want0.deviceID, want0.ioSelect,
                                         want0.videoFormat, want0.pixelFormat,
                                         << >>, signal)
                 released == ReleaseInputSelection(acq.tab, wantCardID,
                                                   want0.ioSelect, s).tab
                 want1 == [want0 EXCEPT
                             !.videoFormat = IF st.vf = kAutoDetect
                                             THEN wire.vf ELSE @,
                             !.pixelFormat = IF st.pf = kAutoDetect
                                             THEN wire.pf ELSE @]
             IN IF ~wire.ok
                THEN [k2 EXCEPT !.outcome = "wire_failed", !.tab = released]
                ELSE IF want1.videoFormat = FORMAT_UNKNOWN
                        \/ want1.pixelFormat = FBF_INVALID
                THEN [k2 EXCEPT !.outcome = "format_unknown", !.tab = released,
                                !.want = want1]
                ELSE IF ~initialized \/ ~PropsEqual(want1, mSourceProps[s])
                THEN [k2 EXCEPT !.outcome = "reconfigure", !.tab = acq.tab,
                                !.want = want1]
                ELSE [k2 EXCEPT !.outcome = "keep", !.tab = acq.tab,
                                !.want = want1]

\* The state change of that part of aja_source_update.
UpdateApply(s, st, pre) ==
    LET r == UpdateCompute(s, st, pre.cardID)
    IN /\ owners' = r.tab
       /\ mCard' = [mCard EXCEPT ![s] = r.card]
       /\ mCardID' = [mCardID EXCEPT ![s] = r.cardID]
       /\ mDeviceIndex' = [mDeviceIndex EXCEPT ![s] = r.devIndex]
       /\ ctl' = [CtlIdle EXCEPT
                    !.op = "update", !.s = s, !.pre = pre, !.want = r.want,
                    !.outcome = r.outcome,
                    !.pc = IF r.outcome = "reconfigure" THEN "upd_route"
                           ELSE IF r.outcome = "keep" THEN "upd_finish"
                           ELSE "ret"]

\* The host runs aja_source_update of session s with settings st.  When the
\* card ID changes, the static flag is cleared and Deactivate is called
\* first.
UpdateBegin(s, st) ==
    /\ UNCHANGED lostHalt
    /\ UNCHANGED wireArgs
    /\ UNCHANGED started
    /\ eventsLeft > 0
    /\ eventsLeft' = eventsLeft - 1
    /\ ctl.op = "idle"
    /\ alive[s]
    /\ settings' = [settings EXCEPT ![s] = st]
    /\ fmtReq' = [fmtReq EXCEPT ![s] = IF st = settings[s] THEN @ ELSE NoFmtReq]
    /\ IF st.card # mCardID[s]
       THEN /\ initialized' = FALSE
            /\ ctl' = [CtlIdle EXCEPT !.op = "update", !.s = s,
                                      !.pc = "deact_set", !.ret = "upd_main",
                                      !.pre = Snapshot(s)]
            /\ UNCHANGED <<owners, mCard, mCardID, mDeviceIndex>>
       ELSE /\ UpdateApply(s, st, Snapshot(s))
            /\ UNCHANGED initialized
    /\ UNCHANGED <<hwVars, alive, showing, mSourceProps, mIsCapturing,
                   mCaptureThread, mVideoBuffer, mAudioBuffer, threadVars,
                   blackSinceDeact>>

\* aja_source_update goes on after the Deactivate of a card change.
UpdateMain ==
    /\ UNCHANGED lostHalt
    /\ UNCHANGED wireArgs
    /\ UNCHANGED started
    /\ UNCHANGED budget
    /\ ctl.pc = "upd_main"
    /\ UpdateApply(ctl.s, settings[ctl.s], ctl.pre)
    /\ AfterDeact
    /\ UNCHANGED <<initialized, hwVars, hostVars, mSourceProps, mIsCapturing,
                   mCaptureThread, mVideoBuffer, mAudioBuffer, threadVars,
                   fmtReq>>

\* aja::Routing::ConfigureSourceRoute(want_props, NTV2_MODE_CAPTURE, card),
\* then the call of Deactivate.
UpdateRoute ==
    /\ UNCHANGED lostHalt
    /\ UNCHANGED wireArgs
    /\ UNCHANGED started
    /\ UNCHANGED budget
    /\ ctl.pc = "upd_route"
    /\ route' = [route EXCEPT ![mCard[ctl.s]] = [c \in Channels |->
                    IF c \in IOChannels(ctl.want.ioSelect) THEN ctl.want
                    ELSE route[mCard[ctl.s]][c]]]
    /\ ctl' = [ctl EXCEPT !.pc = "deact_set", !.ret = "upd_finish",
                          !.reinit = TRUE]
    /\ UNCHANGED <<owners, initialized, inputFrame, signal, devPresent,
                   hwAudioRunning, hostVars, objVars, threadVars, fmtReq,
                   blackSinceDeact>>

\* The end of aja_source_update: initialized set after a reconfiguration,
\* SetSourceProps, StartSourceAudio, SetReference, Activate(true).
UpdateFinish ==
    /\ ctl.pc = "upd_finish"
    /\ lostHalt' = [lostHalt EXCEPT ![ctl.s] = FALSE]
    /\ UNCHANGED wireArgs
    /\ UNCHANGED budget
    /\ initialized' = (initialized \/ ctl.reinit)
    /\ mSourceProps' = [mSourceProps EXCEPT ![ctl.s] = ctl.want]
    /\ ActivateTrue(ctl.s)
    /\ ctl' = [ctl EXCEPT !.pc = "ret", !.outcome = "done", !.deact = "none",
                          !.wasActive = FALSE]
    /\ AfterDeact
    /\ fmtReq' = [fmtReq EXCEPT ![ctl.s] =
                     IF @ = NoFmtReq THEN @ ELSE [@ EXCEPT !.done = TRUE]]
    /\ UNCHANGED <<owners, hwVars, hostVars, mCard, mCardID, mDeviceIndex,
                   mVideoBuffer, mAudioBuffer, tcard, tprops, currentCardFrame,
                   offsets, iter, audioEnd>>

\* The entry point returns to the host.
OpReturn ==
    /\ UNCHANGED lostHalt
    /\ UNCHANGED wireArgs
    /\ UNCHANGED started
    /\ UNCHANGED budget
    /\ ctl.pc = "ret"
    /\ ctl' = CtlIdle
    /\ AfterDeact
    /\ UNCHANGED <<owners, initialized, hwVars, hostVars, objVars, threadVars,
                   fmtReq>>

\* aja_source_destroy up to its call of Deactivate.
DestroyBegin(s) ==
    /\ UNCHANGED lostHalt
    /\ UNCHANGED wireArgs
    /\ UNCHANGED started
    /\ eventsLeft > 0
    /\ eventsLeft' = eventsLeft - 1
    /\ ctl.op = "idle"
    /\ alive[s]
    /\ ctl' = [CtlIdle EXCEPT !.op = "destroy", !.s = s, !.pc = "deact_set",
                              !.ret = "destroy_free", !.pre = Snapshot(s)]
    /\ UNCHANGED <<owners, initialized, hwVars, hostVars, objVars, threadVars,
                   fmtReq, blackSinceDeact>>

\* aja_source_destroy after Deactivate: StopSourceAudio, the buffers freed,
\* the lease of the session's input selection released on its card, the
\* session deleted (its destructor calls Deactivate once more, on a session
\* without thread object).  Without card entry it returns before the release.
DestroyFree ==
    /\ UNCHANGED lostHalt
    /\ UNCHANGED wireArgs
    /\ UNCHANGED started
    /\ UNCHANGED budget
    /\ ctl.pc = "destroy_free"
    /\ mVideoBuffer' = [mVideoBuffer EXCEPT ![ctl.s] = 0]
    /\ mAudioBuffer' = [mAudioBuffer EXCEPT ![ctl.s] = 0]
    /\ owners' = IF mCardID[ctl.s] \in Devices
                 THEN ReleaseInputSelection(owners, mCardID[ctl.s],
                          mSourceProps[ctl.s].ioSelect, ctl.s).tab
                 ELSE owners
    /\ alive' = [alive EXCEPT ![ctl.s] = FALSE]
    /\ fmtReq' = [fmtReq EXCEPT ![ctl.s] = NoFmtReq]
    /\ ctl' = [ctl EXCEPT !.pc = "ret", !.deact = "none", !.wasActive = FALSE,
                          !.outcome = IF mCardID[ctl.s] \in Devices
                                      THEN "destroyed" ELSE "no_entry"]
    /\ AfterDeact
    /\ UNCHANGED <<initialized, hwVars, settings, showing, mCard, mCardID,
                   mDeviceIndex, mSourceProps, mIsCapturing, mCaptureThread,
                   threadVars>>

\* The source becomes visible: aja_source_show.
HostShow(s) ==
    /\ UNCHANGED lostHalt
    /\ UNCHANGED wireArgs
    /\ eventsLeft > 0
    /\ eventsLeft' = eventsLeft - 1
    /\ ctl.op = "idle"
    /\ alive[s]
    /\ ~showing[s]
    /\ showing' = [showing EXCEPT ![s] = TRUE]
    /\ IF mSourceProps[s].deactivateWhileNotShowing /\ ~IsCapturing(s)
       THEN ActivateTrue(s)
       ELSE UNCHANGED <<mCaptureThread, mIsCapturing, tpc, started>>
    /\ UNCHANGED <<owners, initialized, hwVars, alive, settings,
                   mCard, mCardID, mDeviceIndex, mSourceProps, mVideoBuffer,
                   mAudioBuffer, tcard, tprops, currentCardFrame, offsets, iter,
                   audioEnd, fmtReq, blackSinceDeact, ctl>>

\* The source stops being visible: aja_source_hide.
HostHide(s) ==
    /\ UNCHANGED lostHalt
    /\ UNCHANGED wireArgs
    /\ UNCHANGED started
    /\ eventsLeft > 0
    /\ eventsLeft' = eventsLeft - 1
    /\ ctl.op = "idle"
    /\ alive[s]
    /\ showing[s]
    /\ showing' = [showing EXCEPT ![s] = FALSE]
    /\ ctl' = IF mSourceProps[s].deactivateWhileNotShowing /\ IsCapturing(s)
              THEN [CtlIdle EXCEPT !.op = "hide", !.s = s, !.pc = "deact_set",
                                   !.ret = "ret", !.pre = Snapshot(s)]
              ELSE ctl
    /\ UNCHANGED <<owners, initialized, hwVars, alive, settings,
                   objVars, threadVars, fmtReq, blackSinceDeact>>

\* ------------------------------------------------------------ environment

SignalChange(sig) ==
    /\ UNCHANGED lostHalt
    /\ UNCHANGED wireArgs
    /\ UNCHANGED started
    /\ eventsLeft > 0
    /\ eventsLeft' = eventsLeft - 1
    /\ sig # signal
    /\ signal' = sig
    /\ fmtReq' = [s \in Sessions |-> NoFmtReq]
    /\ UNCHANGED <<owners, initialized, route, inputFrame, devPresent,
                   hwAudioRunning, hostVars, objVars, threadVars,
                   blackSinceDeact, ctl>>

DeviceLost(d) ==
    /\ UNCHANGED lostHalt
    /\ UNCHANGED wireArgs
    /\ UNCHANGED started
    /\ eventsLeft > 0
    /\ eventsLeft' = eventsLeft - 1
    /\ devPresent[d]
    /\ devPresent' = [devPresent EXCEPT ![d] = FALSE]
    /\ UNCHANGED <<owners, initialized, route, inputFrame, signal,
                   hwAudioRunning, hostVars, objVars, threadVars, fmtReq,
                   blackSinceDeact, ctl>>

DeviceFound(d) ==
    /\ UNCHANGED lostHalt
    /\ UNCHANGED wireArgs
    /\ UNCHANGED started
    /\ eventsLeft > 0
    /\ eventsLeft' = eventsLeft - 1
    /\ ~devPresent[d]
    /\ devPresent' = [devPresent EXCEPT ![d] = TRUE]
    /\ UNCHANGED <<owners, initialized, route, inputFrame, signal,
                   hwAudioRunning, hostVars, objVars, threadVars, fmtReq,
                   blackSinceDeact, ctl>>

\* --------------------------------------------------------- specifications

Next ==
    \/ \E s \in Sessions : ThreadEntry(s)
    \/ \E s \in Sessions : ThreadIterate(s)
    \/ \E s \in Sessions : ThreadExit(s)
    \/ \E s \in Sessions : \E st \in SettingsOf(s) : UpdateBegin(s, st)
    \/ UpdateMain
    \/ UpdateRoute
    \/ UpdateFinish
    \/ DeactSet
    \/ DeactJoin
    \/ OpReturn
    \/ \E s \in Sessions : DestroyBegin(s)
    \/ DestroyFree
    \/ \E s \in Hideable : HostShow(s)
    \/ \E s \in Hideable : HostHide(s)
    \/ \E sig \in Signals : SignalChange(sig)
    \/ \E d \in Removable : DeviceLost(d)
    \/ \E d \in Removable : DeviceFound(d)

Spec == Init /\ [][Next]_vars

\* One session with the audio system of its card running: ReadAudioLastIn
\* returns any address of the ring.  The session is configured by the host
\* as in Spec, hidden and shown.
CaptureSession == "s1"
CaptureSettings ==
    {st \in SettingsSet : st.card = "d1" /\ st.io = "SDI1" /\ st.dwns}

InitCapture == InitCommon /\ hwAudioRunning = TRUE /\ wireArgs = NoWire

NextCapture ==
    \/ ThreadEntry(CaptureSession)
    \/ ThreadIterate(CaptureSession)
    \/ ThreadExit(CaptureSession)
    \/ \E st \in CaptureSettings : UpdateBegin(CaptureSession, st)
    \/ UpdateMain
    \/ UpdateRoute
    \/ UpdateFinish
    \/ DeactSet
    \/ DeactJoin
    \/ OpReturn
    \/ HostShow(CaptureSession)
    \/ HostHide(CaptureSession)

SpecCapture == InitCapture /\ [][NextCapture]_vars

\* One session with every entry point and a changing input signal, under
\* the scheduling the threads have: a capture thread that can take a
\* step takes it (each hardware wait returns within a frame interval), and
\* the control thread goes on inside Deactivate.
NextLive ==
    \/ ThreadEntry(CaptureSession)
    \/ ThreadIterate(CaptureSession)
    \/ ThreadExit(CaptureSession)
    \/ \E st \in CaptureSettings : UpdateBegin(CaptureSession, st)
    \/ UpdateMain
    \/ UpdateRoute
    \/ UpdateFinish
    \/ DeactSet
    \/ DeactJoin
    \/ OpReturn
    \/ DestroyBegin(CaptureSession)
    \/ DestroyFree
    \/ HostShow(CaptureSession)
    \/ HostHide(CaptureSession)
    \/ \E sig \in Signals : SignalChange(sig)

Fairness ==
    /\ \A s \in Sessions : WF_vars(ThreadEntry(s))
    /\ \A s \in Sessions : WF_vars(ThreadIterate(s))
    /\ \A s \in Sessions : WF_vars(ThreadExit(s))
    /\ WF_vars(DeactSet)
    /\ WF_vars(DeactJoin)

SpecLive == Init /\ [][NextLive]_vars /\ Fairness

\* The wire-format resolver on its own: a caller holds the arguments that
\* aja_source_update builds (the device of a card, a selection other than
\* Invalid, the formats of the settings or the unknown formats of automatic
\* detection, an empty identifier list) and calls ReadWireFormats on them
\* up to MaxCalls times while the signal stays as it is.
WireInputs ==
    [deviceID : {GetDeviceID(d) : d \in Devices},
     ioSelect : IOSelections \ {IO_Invalid},
     vf : {FORMAT_UNKNOWN, "720p"},
     pf : {FBF_INVALID, FBF_8BIT_YCBCR},
     vpids : {<< >>}, ok : {FALSE}, calls : {0}, waits : {0}, enabled : {{}}]

\* The signals the resolver is applied to: those of the other
\* specifications, and signals whose two SDI connectors carry identifiers of
\* different samplings.
WireSignals ==
    Signals \cup
    {[vf |-> "720p", vpid |-> "other", vpidB |-> "422", hdmi |-> "YCbCr"],
     [vf |-> "720p", vpid |-> "other", vpidB |-> "444", hdmi |-> "RGB"],
     [vf |-> "720p", vpid |-> "444", vpidB |-> "none", hdmi |-> "RGB"]}

InitWire ==
    /\ InitBase
    /\ signal \in WireSignals
    /\ hwAudioRunning = FALSE
    /\ wireArgs \in WireInputs

\* AJASource::ReadWireFormats called on the arguments the caller holds.
WireCall ==
    /\ wireArgs.calls < MaxCalls
    /\ LET r == ReadWireFormats(wireArgs.deviceID, wireArgs.ioSelect,
                                wireArgs.vf, wireArgs.pf, wireArgs.vpids,
                                signal)
       IN wireArgs' = [wireArgs EXCEPT !.vf = r.vf, !.pf = r.pf,
                                       !.vpids = r.vpids, !.ok = r.ok,
                                       !.calls = @ + 1, !.waits = r.waits,
                                       !.enabled = r.enabled]
    /\ UNCHANGED <<owners, initialized, hwVars, hostVars, objVars, threadVars,
                   fmtReq, blackSinceDeact, ctl, lostHalt, started,
                   eventsLeft>>

NextWire == WireCall

SpecWire == InitWire /\ [][NextWire]_vars

\* ------------------------------------------------- lease and update claims

\* A control-thread call returns from aja_source_update with this outcome in
\* this step.
UpdateReturns(outcomes) ==
    /\ ctl.pc # "ret"
    /\ ctl'.pc = "ret"
    /\ ctl'.op = "update"
    /\ ctl'.outcome \in outcomes

\* C1: at every moment every channel of every card is leased to at most one
\* session.
C1_MutualExclusion ==
    \A d \in Devices : \A c \in Channels : Cardinality(owners[d][c]) <= 1

\* An update has just been refused a selection of which another session
\* holds a channel.
C1_Witness ==
    /\ ctl.pc = "ret"
    /\ ctl.outcome = "acquire_refused"
    /\ \E c \in IOChannels(ctl.want.ioSelect) :
          /\ owners[mCardID[ctl.s]][c] # {}
          /\ ctl.s \notin owners[mCardID[ctl.s]][c]

\* C2: the input route is programmed (ConfigureSourceRoute) and the buffers
\* of a session are freed only while the capture thread of that session is
\* not running.
C2_JoinBeforeReconfigure ==
    [][(ctl.pc \in {"upd_route", "destroy_free"} /\ ctl'.pc # ctl.pc)
          => tpc[ctl.s] = "idle"]_vars

\* C3: an update that is refused the requested selection leaves the session
\* as it was when the update was called: the leases it holds, its card ID
\* and device index, its source properties, its capture thread running or
\* not.
C3_RefusedUpdateKeepsSession ==
    [][UpdateReturns({"acquire_refused"})
          => LET s == ctl'.s
                 pre == ctl'.pre
             IN /\ OwnedBy(owners', s) = pre.owned
                /\ mCardID'[s] = pre.cardID
                /\ mDeviceIndex'[s] = pre.devIndex
                /\ mSourceProps'[s] = pre.props
                /\ (tpc'[s] # "idle") = pre.running]_vars

\* C4: an update whose wire formats cannot be read, or come out unknown,
\* returns with the session holding no channel of the requested selection
\* and with its capture thread not running.
C4_FailedResolveInactive ==
    [][UpdateReturns({"wire_failed", "format_unknown"})
          => LET s == ctl'.s
             IN /\ \A c \in IOChannels(ctl'.want.ioSelect) :
                      s \notin owners'[mCardID'[s]][c]
                /\ tpc'[s] = "idle"]_vars

C6_FormatChange ==
    \A s \in Sessions :
        /\ iter[s].kind = "changed"
              => /\ iter[s].req = 1
                 /\ iter[s].video = 0
                 /\ iter[s].audio = 0
                 /\ tpc[s] = "exit"
        /\ (fmtReq[s] # NoFmtReq /\ ~fmtReq[s].done) => iter[s].video = 0
        /\ (fmtReq[s] # NoFmtReq /\ fmtReq[s].done /\ tpc[s] = "loop")
              => /\ tprops[s].videoFormat = fmtReq[s].vf
                 /\ mVideoBuffer[s] =
                       GetVideoWriteSize(fmtReq[s].vf, tprops[s].pixelFormat)

\* ------------------------------------------------------------ audio claims

\* The capture thread of s runs an iteration that polls the audio ring.
PollStep(s) ==
    /\ tpc[s] = "loop"
    /\ currentCardFrame'[s] # currentCardFrame[s]
    /\ iter'[s].poll.polled

\* C7: an iteration whose audio byte span exceeds the capacity of the audio
\* buffer resets the offsets and emits no audio unit; every audio unit
\* emitted carries at most as many bytes as the buffer holds.
C7_OverrunSkipsAudio ==
    \A s \in Sessions :
        iter[s].poll.polled
            => /\ iter[s].poll.span > mAudioBuffer[s]
                    => /\ offsets[s] = ResetAudioBufferOffsets
                       /\ iter[s].audio = 0
                       /\ ~iter[s].poll.emitted
               /\ iter[s].audio = 1
                    => /\ iter[s].poll.span <= mAudioBuffer[s]
                       /\ offsets[s].bytesRead <= mAudioBuffer[s]
                       /\ iter[s].poll.frames * AudioFrameBytes
                             <= mAudioBuffer[s]

\* An iteration has just found an overrun.
C7_Witness ==
    \E s \in Sessions :
        /\ iter[s].poll.polled
        /\ iter[s].poll.span > mAudioBuffer[s]
        /\ iter[s].audio = 0
        /\ offsets[s] = ResetAudioBufferOffsets

\* C8: after a poll whose span exceeded the capacity, the tracker holds the
\* read offset and the wrap address of the hardware, and the next poll
\* computes a span of at most the capacity.
C8_OverrunRecovers ==
    [][\A s \in Sessions :
          (tpc[s] = "loop" /\ iter[s].poll.polled /\ iter[s].poll.overrun)
             => /\ offsets[s].readOffset = HwAudioReadOffset
                /\ offsets[s].wrapAddress =
                      Add32(HwAudioWrapAddress, HwAudioReadOffset)
                /\ PollStep(s)
                      => /\ ~iter'[s].poll.overrun
                         /\ iter'[s].poll.span <= mAudioBuffer[s]]_vars

\* C9: a poll without overrun emits exactly one audio unit and reads from
\* the address where the previous poll ended; when the write pointer has
\* wrapped, it reads up to the wrap address and goes on at the read offset.
C9_ContiguousReads ==
    [][\A s \in Sessions :
          (PollStep(s) /\ ~iter'[s].poll.overrun)
             => LET rd == iter'[s].poll.reads
                    o == offsets[s]
                    wrapped == offsets'[s].currentAddress < o.lastAddress
                IN /\ iter'[s].audio = 1
                   /\ Len(rd) = IF wrapped THEN 2 ELSE 1
                   /\ rd[1].src = audioEnd[s]
                   /\ wrapped
                        => /\ rd[1].src + rd[1].len = o.wrapAddress
                           /\ rd[2].src = o.readOffset
                           /\ rd[1].len + rd[2].len = iter'[s].poll.span
                   /\ audioEnd'[s] = rd[Len(rd)].src + rd[Len(rd)].len
                   /\ audioEnd'[s] = offsets'[s].currentAddress]_vars

\* A wrapped poll of less than the capacity has followed a poll that read
\* bytes, and has emitted its audio unit.
C9_Witness ==
    \E s \in Sessions :
        /\ iter[s].poll.polled
        /\ Len(iter[s].poll.reads) = 2
        /\ iter[s].poll.reads[1].src > HwAudioReadOffset
        /\ iter[s].poll.reads[2].len > 0
        /\ iter[s].poll.span < mAudioBuffer[s]
        /\ iter[s].audio = 1

\* C10: from the reset at the entry of the capture thread on,
\* readOffset <= lastAddress <= wrapAddress.
C10_OffsetsOrdered ==
    \A s \in Sessions :
        tpc[s] \in {"loop", "exit"}
            => /\ offsets[s].readOffset <= offsets[s].lastAddress
               /\ offsets[s].lastAddress <= offsets[s].wrapAddress

\* The tracker has advanced into the ring, past a reset for an overrun or
\* past a wrap.
C10_Witness ==
    \E s \in Sessions :
        /\ tpc[s] = "loop"
        /\ iter[s].poll.polled
        /\ iter[s].poll.overrun \/ Len(iter[s].poll.reads) = 2
        /\ offsets[s].readOffset <= offsets[s].lastAddress
        /\ offsets[s].lastAddress < offsets[s].wrapAddress

\* ------------------------------------------------------ concurrency claims

\* The accesses to the capturing flag of session s that the step makes:
\* the loop condition of the capture thread, the checks of aja_source_show
\* and aja_source_hide on a session with deactivateWhileNotShowing, and the
\* SetCapturing calls of Activate(true) and Deactivate.
FlagAccesses(s) ==
    IF ThreadIterate(s) THEN <<IsCapturingAccess(s, "thread")>>
    ELSE IF HostShow(s)
    THEN (IF mSourceProps[s].deactivateWhileNotShowing
          THEN <<IsCapturingAccess(s, "control")>> ELSE NoFlagAccess)
         \o (IF mSourceProps[s].deactivateWhileNotShowing /\ ~IsCapturing(s)
             THEN <<SetCapturingAccess(s, "control")>> ELSE NoFlagAccess)
    ELSE IF HostHide(s)
    THEN IF mSourceProps[s].deactivateWhileNotShowing
         THEN <<IsCapturingAccess(s, "control")>> ELSE NoFlagAccess
    ELSE IF ctl.s = s /\ (DeactSet \/ UpdateFinish)
    THEN <<SetCapturingAccess(s, "control")>>
    ELSE NoFlagAccess

\* C11: every read and every write of a capturing flag, by the control
\* thread and by the capture thread, is made with the mutex of the session
\* held.
C11_FlagGuarded ==
    [][\A s \in Sessions :
          \A i \in 1..Len(FlagAccesses(s)) : FlagAccesses(s)[i].locked]_vars

\* C12: a capture thread that finds its capturing flag false at the top of
\* an iteration leaves the loop in that iteration, without polling audio or
\* capturing video; once the flag is false the thread terminates, and a
\* Deactivate that waits for it returns.
C12_CooperativeCancel ==
    /\ [][\A s \in Sessions :
             (tpc[s] = "loop" /\ ~mIsCapturing[s] /\ iter'[s] # iter[s])
                => /\ tpc'[s] = "exit"
                   /\ iter'[s].kind = "stopped"
                   /\ iter'[s].audio = 0
                   /\ iter'[s].video = 0]_vars
    /\ \A s \in Sessions :
          (~mIsCapturing[s] /\ tpc[s] # "idle") ~> (tpc[s] = "idle")
    /\ (ctl.pc = "deact_join") ~> (ctl.deact = "returned")

\* A capture thread has found the flag false, set by a Deactivate that is
\* waiting for it, and is leaving.
C12_Witness ==
    \E s \in Sessions :
        /\ ctl.pc = "deact_join"
        /\ ctl.s = s
        /\ tpc[s] = "exit"
        /\ iter[s].kind = "stopped"

\* ------------------------------------------------------- capture-loop claims

\* The capture thread of s runs one pass of its loop.
IterStep(s) ==
    /\ tpc[s] = "loop"
    /\ <<tpc'[s], iter'[s], currentCardFrame'[s]>>
          # <<tpc[s], iter[s], currentCardFrame[s]>>

\* What the iteration that finds the device absent does: no audio unit, no
\* captured frame, one request for an update, the way out of the loop (where
\* the thread emits its one black frame and returns).
LostIterationHalts(s) ==
    iter[s].kind = "lost"
        => /\ iter[s].audio = 0
           /\ iter[s].video = 0
           /\ iter[s].black = 0
           /\ ~iter[s].poll.polled
           /\ iter[s].req = 1
           /\ tpc[s] = "exit"

\* C13 as the specification states it: the iteration that finds the device
\* absent emits no audio unit and no captured frame and the thread halts
\* with one black frame; the thread does not run again until an update of
\* the session has succeeded.
C13_HaltedUntilUpdate ==
    \A s \in Sessions :
        /\ LostIterationHalts(s)
        /\ lostHalt[s] => tpc[s] \in {"exit", "idle"}

\* C13: the iteration that finds the device absent emits no audio unit and
\* no captured frame and the thread halts with one black frame; every pass
\* of the loop made while the device is absent, also by a thread started
\* again since, leaves the loop without audio unit or captured frame.
C13_DeviceLostHalts ==
    /\ [](\A s \in Sessions : LostIterationHalts(s))
    /\ [][\A s \in Sessions :
             (IterStep(s) /\ ~devPresent[tcard[s]])
                => /\ tpc'[s] = "exit"
                   /\ iter'[s].kind \in {"lost", "stopped"}
                   /\ iter'[s].audio = 0
                   /\ iter'[s].video = 0
                   /\ inputFrame' = inputFrame]_vars
    /\ [][\A s \in Sessions :
             (tpc[s] = "exit" /\ tpc'[s] = "idle")
                => blackSinceDeact'[s]
                      = (blackSinceDeact[s]
                            \/ (ctl.s = s /\ ctl.pc = "deact_join"))]_vars

\* The loop has found the device absent and is on its way out.
C13_Witness ==
    \E s \in Sessions :
        /\ iter[s].kind = "lost"
        /\ tpc[s] = "exit"
        /\ lostHalt[s]
        /\ ~devPresent[tcard[s]]

\* C14: an iteration that finds the live format unresolved emits one black
\* frame, no audio unit and no captured frame, stays in the loop, and leaves
\* the hardware target frame, the frame index of the thread and the audio
\* offsets as they were.
C14_UnresolvedKeepsBuffers ==
    [][\A s \in Sessions :
          (IterStep(s) /\ iter'[s].kind = "unresolved")
             => /\ iter'[s].black = 1
                /\ iter'[s].audio = 0
                /\ iter'[s].video = 0
                /\ tpc'[s] = "loop"
                /\ inputFrame' = inputFrame
                /\ offsets'[s] = offsets[s]
                /\ currentCardFrame'[s] = currentCardFrame[s]]_vars

\* ----------------------------------------------------- reconfiguration claims

\* aja_source_update decides in this step whether it reconfigures.
UpdateDecides ==
    /\ ctl.outcome = "none"
    /\ ctl'.op = "update"
    /\ ctl'.outcome \in {"reconfigure", "keep"}

\* C15: an update of a session whose capture thread was running at the call
\* reconfigures (Deactivate, ConfigureSourceRoute, Activate) exactly when
\* the props it has resolved differ from the props of the session, whatever
\* other sessions have done before.
C15_RestartIffPropsDiffer ==
    [][(UpdateDecides /\ ctl'.pre.running)
          => ((ctl'.outcome = "reconfigure")
                 <=> ~PropsEqual(ctl'.want, mSourceProps[ctl'.s]))]_vars

\* aja_source_update reaches the call of AcquireInputSelection in this step.
UpdateDecidesAcquire ==
    /\ ctl.outcome = "none"
    /\ ctl'.op = "update"
    /\ ctl'.outcome \notin {"none", "no_entry", "not_open", "invalid_io"}

\* A step of aja_source_update before it has decided to go on to the route,
\* or the step in which it is refused the selection.
RefusableUpdateStep ==
    /\ ctl' # ctl
    /\ ctl'.op = "update"
    /\ ctl'.outcome \in {"none", "acquire_refused"}

\* Another session holds a channel of the selection that the update of
\* ctl'.s asks for on its card.
OverlapsOther ==
    \E c \in IOChannels(ctl'.want.ioSelect) :
       \E t \in Sessions \ {ctl'.s} : t \in owners[mCardID'[ctl'.s]][c]

\* What the step leaves of session t: its leases, source properties, the
\* route of the channels it holds, its capture flag and capture thread.
SessionKept(t) ==
    /\ OwnedBy(owners', t) = OwnedBy(owners, t)
    /\ mSourceProps'[t] = mSourceProps[t]
    /\ \A d \in Devices : \A c \in Channels :
          t \in owners[d][c] => route'[d][c] = route[d][c]
    /\ mIsCapturing'[t] = mIsCapturing[t]
    /\ mCaptureThread'[t] = mCaptureThread[t]
    /\ tpc'[t] = tpc[t]
    /\ tprops'[t] = tprops[t]

\* C16: an update that asks for a selection of which another session holds
\* a channel on the same card is refused, and no step of a refused update
\* changes the leases, source properties, route, or capture thread of any
\* other session.
C16_OverlapRefusedOthersKept ==
    /\ [][(UpdateDecidesAcquire /\ OverlapsOther)
             => ctl'.outcome = "acquire_refused"]_vars
    /\ [][RefusableUpdateStep
             => \A t \in Sessions \ {ctl'.s} : SessionKept(t)]_vars

\* An update has just been refused while the session that holds the
\* contended channel is capturing on the route configured for it.
C16_Witness ==
    /\ ctl.pc = "ret"
    /\ ctl.outcome = "acquire_refused"
    /\ \E t \in Sessions \ {ctl.s} :
          /\ tpc[t] = "loop"
          /\ mIsCapturing[t]
          /\ \E c \in IOChannels(ctl.want.ioSelect) :
                /\ t \in owners[mCardID[ctl.s]][c]
                /\ route[mCardID[ctl.s]][c] = mSourceProps[t]

\* C17: the acquire of a selection of which another client owns a channel
\* fails, and the step that makes it gives no channel of any card a new
\* owner: the free channels of the selection are not granted.
C17_NoPartialAcquire ==
    [][(UpdateDecidesAcquire /\ OverlapsOther)
          => /\ ctl'.outcome = "acquire_refused"
             /\ \A d \in Devices : \A c \in Channels :
                   owners'[d][c] \subseteq owners[d][c]]_vars

\* A selection of two channels has been refused: another session owns one
\* of them, the other one is free and stays free.
C17_Witness ==
    /\ ctl.pc = "ret"
    /\ ctl.outcome = "acquire_refused"
    /\ \E c1, c2 \in IOChannels(ctl.want.ioSelect) :
          /\ owners[mCardID[ctl.s]][c1] # {}
          /\ ctl.s \notin owners[mCardID[ctl.s]][c1]
          /\ owners[mCardID[ctl.s]][c2] = {}

\* The client does not own the channel set of the selection on the card.
NotOwned(tab, d, io, owner) ==
    \/ IOChannels(io) = {}
    \/ \E c \in IOChannels(io) : owner \notin tab[d][c]

\* aja_source_update releases the selection of the current props in this
\* step, on the card it has looked up, and the session does not own it.
UpdateReleaseFails ==
    /\ UpdateDecidesAcquire
    /\ ctl'.want.ioSelect # mSourceProps[ctl'.s].ioSelect
    /\ NotOwned(owners, mCardID'[ctl'.s], mSourceProps[ctl'.s].ioSelect, ctl'.s)

\* aja_source_destroy releases the selection of the session in this step,
\* and the session does not own it.
DestroyReleaseFails ==
    /\ ctl.pc = "destroy_free"
    /\ ctl'.pc = "ret"
    /\ mCardID[ctl.s] \in Devices
    /\ NotOwned(owners, mCardID[ctl.s], mSourceProps[ctl.s].ioSelect, ctl.s)

\* C18: a release of a channel set that the caller does not own leaves the
\* lease table as it is, and its callers go on.  aja_source_update goes on
\* to the acquire, which is decided on the unchanged table and changes the
\* channels of the requested selection only; aja_source_destroy goes on to
\* delete the session.
C18_FailedReleaseKeepsTable ==
    /\ [][UpdateReleaseFails
             => LET s == ctl'.s
                    d == mCardID'[s]
                    io == ctl'.want.ioSelect
                IN /\ (ctl'.outcome = "acquire_refused")
                         <=> (\E c \in IOChannels(io) : ~ChannelReady(owners, d, c, s))
                   /\ \A e \in Devices : \A c \in Channels :
                         (e # d \/ c \notin IOChannels(io))
                            => owners'[e][c] = owners[e][c]
                   /\ \A c \in IOChannels(io) :
                         owners'[d][c] \in {owners[d][c], owners[d][c] \cup {s},
                                            owners[d][c] \ {s}}]_vars
    /\ [][DestroyReleaseFails
             => /\ owners' = owners
                /\ ~alive'[ctl.s]
                /\ ctl'.outcome = "destroyed"]_vars

\* A release has just failed on a channel that another session owns: in an
\* update that went on to acquire another selection, or in a destroy.
C18_Witness ==
    /\ ctl.pc = "ret"
    /\ \/ ctl.op = "destroy" /\ ctl.outcome = "destroyed"
       \/ ctl.op = "update" /\ ctl.outcome \in {"acquire_refused", "format_unknown"}
                            /\ ctl.want.ioSelect # mSourceProps[ctl.s].ioSelect
    /\ \E c \in IOChannels(mSourceProps[ctl.s].ioSelect) :
          /\ owners[mCardID[ctl.s]][c] # {}
          /\ ctl.s \notin owners[mCardID[ctl.s]][c]

\* ------------------------------------------------------------ destroy claim

\* aja_source_destroy of session s has freed the buffers and gone on to its
\* end.
Destroyed(s) == ~alive[s]

\* C19: once aja_source_destroy of a session has run, the session owns no
\* channel of any card, its capture thread has returned and its video and
\* audio buffers are freed; the buffers are freed in a step in which the
\* capture thread has already returned.
C19_DestroyReleasesAll ==
    /\ [](\A s \in Sessions : Destroyed(s)
             => /\ OwnedBy(owners, s) = {}
                /\ tpc[s] = "idle"
                /\ mVideoBuffer[s] = 0
                /\ mAudioBuffer[s] = 0)
    /\ [][(ctl.pc = "destroy_free" /\ ctl'.pc # ctl.pc)
             => tpc[ctl.s] = "idle"]_vars

\* A session that held a lease and had a running capture thread has been
\* destroyed.
C19_Witness ==
    /\ ctl.op = "destroy"
    /\ ctl.pc = "ret"
    /\ Destroyed(ctl.s)
    /\ ctl.pre.owned # {}
    /\ ctl.pre.running

\* ------------------------------------------------------ wire-format claim

\* The identifiers that one call of ReadWireFormats parses on selection io
\* with signal sig: one per SDI source whose VPID read succeeds.
ParsedVpids(io, sig) ==
    LET srcs == IOSelectionToInputSources(io)
        read == [i \in 1..Len(srcs) |->
                    IF srcs[i].kind = "SDI"
                    THEN ChannelVpid(sig, srcs[i].channel) ELSE "none"]
        Parsed(v) == v # "none"
    IN SelectSeq(read, Parsed)

\* ReadWireFormats is called again in this step, after a call that
\* succeeded.
WireCalledAgain ==
    /\ wireArgs.calls >= 1
    /\ wireArgs.ok
    /\ wireArgs'.calls = wireArgs.calls + 1

WireResolved == wireArgs.calls = 1 /\ wireArgs.ok

\* C21: when one of the identifiers that ReadWireFormats parsed indicates
\* 4:2:2 sampling, the pixel format it yields is 8-bit YCbCr, and when one
\* indicates 4:4:4 GBR sampling it is 24-bit BGR.
C21_VpidOverridesPixelFormat ==
    WireResolved
       => /\ (\E i \in 1..Len(wireArgs.vpids) : wireArgs.vpids[i] = "422")
                => wireArgs.pf = FBF_8BIT_YCBCR
          /\ (\E i \in 1..Len(wireArgs.vpids) : wireArgs.vpids[i] = "444")
                => wireArgs.pf = FBF_24BIT_BGR

\* ReadWireFormats is called in this step.
WireCalled == wireArgs'.calls = wireArgs.calls + 1

\* C22: on a selection without input sources ReadWireFormats fails at once:
\* no channel enabled, no wait for a vertical interrupt, the video format,
\* the pixel format and the identifier list as they were passed.  On a
\* selection of n SDI or HDMI sources it enables their channels, waits n + 1
\* times (once per source, once more on the first source) and succeeds.
C22_EmptySelectionFailsFast ==
    [][WireCalled
          => LET srcs == IOSelectionToInputSources(wireArgs.ioSelect)
             IN IF Len(srcs) = 0
                THEN /\ ~wireArgs'.ok
                     /\ wireArgs'.waits = 0
                     /\ wireArgs'.enabled = {}
                     /\ wireArgs'.vf = wireArgs.vf
                     /\ wireArgs'.pf = wireArgs.pf
                     /\ wireArgs'.vpids = wireArgs.vpids
                ELSE /\ wireArgs'.ok
                     /\ wireArgs'.waits = Len(srcs) + 1
                     /\ wireArgs'.enabled = IOChannels(wireArgs.ioSelect)]_vars

\* ReadWireFormats has failed on a selection without input sources, called
\* with a video format and a pixel format that are not the unknown ones.
C22_Witness ==
    /\ wireArgs.calls >= 1
    /\ ~wireArgs.ok
    /\ IOSelectionToInputSources(wireArgs.ioSelect) = << >>
    /\ wireArgs.vf # FORMAT_UNKNOWN
    /\ wireArgs.pf # FBF_INVALID

\* ------------------------------------------------------ frame slot claims

\* The capture loop of session s reads a video frame from the card in this
\* step (DMAReadFrame of the slot it has just flipped to).
ReadsFrame(s) == IterStep(s) /\ iter'[s].kind = "frame"

\* C23: the slot a loop iteration reads with DMAReadFrame is not the slot
\* that SetInputFrame last made the input target of the channel, and the
\* slot of a running loop is one of the two slots of its channel.
C23_ReadsInactiveSlot ==
    /\ [][\A s \in Sessions :
             ReadsFrame(s)
                => currentCardFrame'[s]
                      # inputFrame[tcard[s]][PropsChannel(tprops[s].ioSelect)]]_vars
    /\ [](\A s \in Sessions :
             tpc[s] = "loop"
                => currentCardFrame[s]
                      \in {2 * PropsChannel(tprops[s].ioSelect),
                           2 * PropsChannel(tprops[s].ioSelect) + 1})

\* The capture thread of session s runs its loop.
Capturing(s) == tpc[s] = "loop"

\* C24: whenever no entry point is running and the capture thread of a
\* session runs its loop, the session owns, on the card the thread
\* captures from, every channel of the selection the thread captures.
C24_CapturingHoldsLease ==
    \A s \in Sessions :
       (ctl.op = "idle" /\ Capturing(s))
          => \A c \in IOChannels(tprops[s].ioSelect) : s \in owners[tcard[s]][c]

\* ------------------------------------------------------ audio buffer claim

\* C25: every DMAReadAudio of a loop iteration writes inside the audio
\* buffer of the session: destination offset plus length is at most the
\* byte count of the buffer.
C25_AudioDmaInsideBuffer ==
    \A s \in Sessions :
       \A i \in 1..Len(iter[s].poll.reads) :
          iter[s].poll.reads[i].dst + iter[s].poll.reads[i].len
             <= mAudioBuffer[s]

\* ------------------------------------------------------ thread state claims

\* C26: whenever no entry point is running, a session whose capturing flag
\* is set (IsCapturing() returns true) has a capture thread that has not
\* returned.
C26_FlagImpliesThread ==
    \A s \in Sessions :
       (ctl.op = "idle" /\ alive[s] /\ IsCapturing(s)) => tpc[s] # "idle"

\* ------------------------------------------------------------------ C27

\* Activate(true) has just returned from an update that kept the running
\* capture thread.
ActivatedWhileActive ==
    /\ ctl.op = "update"
    /\ ctl.pc = "ret"
    /\ ctl.outcome = "done"
    /\ ~ctl.reinit
    /\ ctl.pre.running

\* C27: in every reachable state each session has at most one capture thread
\* that was started and has not returned, and it has one exactly when its
\* thread position is not idle; Activate(true) on an active thread starts no
\* second one and the object left by Activate(false) at creation has none.
C27_AtMostOneThread ==
    \A s \in Sessions :
        /\ started[s] <= 1
        /\ (started[s] = 1) <=> (tpc[s] # "idle")

C27_Witness ==
    /\ ActivatedWhileActive
    /\ tpc[ctl.s] = "loop"
    /\ started[ctl.s] = 1

\* ------------------------------------------------------------------ C28

\* aja_source_update returns in this step from a call that found the
\* session holding a lease on its device and was given settings that name
\* another device, which is present, with a selection that has sources and
\* whose channels no other session holds there, while a signal is on the
\* inputs.
CardChangeReturns ==
    /\ ctl.pc # "ret"
    /\ ctl'.pc = "ret"
    /\ ctl'.op = "update"
    /\ ctl'.pre.owned # {}
    /\ \A dc \in ctl'.pre.owned : dc[1] = ctl'.pre.cardID
    /\ settings[ctl'.s].card \notin {NoCard, ctl'.pre.cardID}
    /\ devPresent[settings[ctl'.s].card]
    /\ IOSelectionToInputSources(settings[ctl'.s].io) # << >>
    /\ \A c \in IOChannels(settings[ctl'.s].io) :
          ChannelReady(owners, settings[ctl'.s].card, c, ctl'.s)
    /\ signal.vf # FORMAT_UNKNOWN

\* C28: an update that moves a session holding a lease to another, present
\* device with a free, valid selection and a signal returns with the lease on
\* the previous device released, the channels of the selection on the new
\* device owned by the session, and the capture thread of the session
\* running.
C28_CardChangeMovesLease ==
    [][CardChangeReturns
          => LET s == ctl'.s
                 st == settings[s]
             IN /\ \A c \in Channels : s \notin owners'[ctl'.pre.cardID][c]
                /\ \A c \in IOChannels(st.io) : s \in owners'[st.card][c]
                /\ tpc'[s] # "idle"]_vars

====
